---- MODULE Spec2Model ----
(***************************************************************************)
(* The day-cycle engine of the autonomous city simulation: CityState,      *)
(* Agent.plan / Agent.act and the phases of CitySimulationEngine.run.      *)
(*                                                                         *)
(* Reals are fixed-point integers.  energy, mood, safety, happiness and    *)
(* the random draws are counted in thousandths (Unit = 1.0); economy is    *)
(* counted in thousandths too, and the 0.995 decay truncates to a whole    *)
(* thousandth.  money is counted in whole currency units (the code only    *)
(* ever adds or subtracts 5, 10 and 15 from 50).  Arithmetic is that of    *)
(* exact decimals, not of binary floating point.                           *)
(***************************************************************************)
EXTENDS Integers, Sequences, FiniteSets, TLC

VARIABLES
    agents,     \* engine.agents: sequence of Agent records, in roster order
    city,       \* engine.city: the CityState record
    days,       \* the argument of run(days)
    iter,       \* completed iterations of the for loop of run
    pc,         \* position inside run: the phase about to execute
    ctx,        \* local ctx of run: the DayContext of the current iteration
    plans,      \* local plans of run: dict agent.id -> PlannedAction
    idx,        \* position of the for loop over self.agents inside a phase
    executed,   \* history: per action type, how many times act executed it,
                \* and under "shop_unfunded" how many of the shops had money < 5
    sumStats    \* history: daily_stats at the end of each day, summed over days

vars == <<agents, city, days, iter, pc, ctx, plans, idx, executed, sumStats>>

----------------------------------------------------------------------------
(* Bounds of the model *)

\* total number of agent steps (roster size times days) of a run of Spec
MaxActs == 4
\* days of the long run of the shop owner alone (SpecShopOwner)
MaxLongDays == 12
\* number of distinct values the random source can return
DrawCount == 10
\* days of the long run of a worker alone (SpecTired)
MaxTiredDays == 7

----------------------------------------------------------------------------
(* Numbers *)

Unit == 1000

Min(a, b) == IF a < b THEN a ELSE b
Max(a, b) == IF a > b THEN a ELSE b

\* max(0.0, min(1.0, x))
Clamp01(x) == Max(0, Min(Unit, x))

\* rng.random(): a uniform real in [0, 1)
Draws == {(k * Unit) \div DrawCount : k \in 0 .. (DrawCount - 1)}

None == "None"

ActionTypes == {"work", "shop", "rest", "patrol", "crime", "socialize"}

StatKeys == {"work_count", "shop_count", "patrol_count", "crime_attempts",
             "crime_prevented", "social_interactions", "rest_count"}

Weathers == <<"sunny", "cloudy", "rainy", "windy">>

----------------------------------------------------------------------------
(* city_state.py *)

\* CityState(): the dataclass defaults
NewCityState ==
    [day |-> 1, economy |-> 100 * Unit, safety |-> 800, happiness |-> 800,
     daily_stats |-> [k \in {} |-> 0], logs |-> <<>>]

\* reset_daily_stats creating the counters only when there are none yet
reset_daily_statsOnlyOnce(c) ==
    IF DOMAIN c.daily_stats = {}
    THEN [c EXCEPT !.daily_stats = [k \in StatKeys |-> 0]]
    ELSE c

\* reset_daily_stats starting the log of the day afresh as well
reset_daily_statsClearsLogs(c) ==
    [c EXCEPT !.daily_stats = [k \in StatKeys |-> 0], !.logs = <<>>]

\* CityState.reset_daily_stats
reset_daily_stats(c) ==
    [c EXCEPT !.daily_stats = [k \in StatKeys |-> 0]]

\* CityState.log_action
log_action(c, entry) ==
    [c EXCEPT !.logs = Append(@, entry)]

\* clamp_metrics with the clamp left out
clamp_metricsMissing(c) == c

\* CityState.clamp_metrics
clamp_metrics(c) ==
    [c EXCEPT !.safety = Clamp01(@), !.happiness = Clamp01(@)]

\* city.daily_stats[key] += 1
BumpStat(c, key) ==
    [c EXCEPT !.daily_stats[key] = @ + 1]

----------------------------------------------------------------------------
(* agents.py *)

\* PlannedAction(action_type, target=None, note="")
PlannedAction(type, target, note) ==
    [action_type |-> type, target |-> target, note |-> note]

\* Agent(id, name, role): money, energy, mood take the dataclass defaults
NewAgent(id, name, role) ==
    [id |-> id, name |-> name, role |-> role,
     money |-> 50, energy |-> Unit, mood |-> 500]

PlanWorker(p) ==
    IF p < 700 THEN PlannedAction("work", "office", "")
    ELSE IF p < 850 THEN PlannedAction("socialize", "cafe", "")
    ELSE PlannedAction("rest", None, "")

PlanShopOwner(c, p) ==
    IF c.economy < 80 * Unit /\ p < 300
    THEN PlannedAction("rest", None, "Economy looks bad.")
    ELSE IF p < 750 THEN PlannedAction("shop", "store", "")
    ELSE PlannedAction("socialize", "market", "")

PlanStudent(p) ==
    IF p < 500 THEN PlannedAction("work", "school", "Studying.")
    ELSE IF p < 800 THEN PlannedAction("socialize", "park", "")
    ELSE PlannedAction("rest", None, "")

PlanPolice(c, p) ==
    LET base_patrol == 600 + (500 - c.safety)
    IN  IF p < base_patrol THEN PlannedAction("patrol", "streets", "")
        ELSE IF p < 900 THEN PlannedAction("socialize", "station", "")
        ELSE PlannedAction("rest", None, "")

\* the default policy with a small chance of crime
PlanDefaultWithCrime(p) ==
    IF p < 400 THEN PlannedAction("work", "generic_job", "")
    ELSE IF p < 700 THEN PlannedAction("socialize", "square", "")
    ELSE IF p < 900 THEN PlannedAction("rest", None, "")
    ELSE PlannedAction("crime", None, "")

PlanDefault(p) ==
    IF p < 400 THEN PlannedAction("work", "generic_job", "")
    ELSE IF p < 700 THEN PlannedAction("socialize", "square", "")
    ELSE PlannedAction("rest", None, "")

\* Agent.plan with the fatigue threshold at 0.2 instead of 0.3
AgentPlanTiredBelow02(a, c, cx, p) ==
    IF a.energy < 200 THEN PlannedAction("rest", None, "Too tired, staying home.")
    ELSE IF a.role = "worker" THEN PlanWorker(p)
    ELSE IF a.role = "shop_owner" THEN PlanShopOwner(c, p)
    ELSE IF a.role = "student" THEN PlanStudent(p)
    ELSE IF a.role = "police" THEN PlanPolice(c, p)
    ELSE PlanDefault(p)

\* Agent.plan(city, ctx, rng); p is the value rng.random() returns if asked
AgentPlan(a, c, cx, p) ==
    IF a.energy < 300 THEN PlannedAction("rest", None, "Too tired, staying home.")
    ELSE IF a.role = "worker" THEN PlanWorker(p)
    ELSE IF a.role = "shop_owner" THEN PlanShopOwner(c, p)
    ELSE IF a.role = "student" THEN PlanStudent(p)
    ELSE IF a.role = "police" THEN PlanPolice(c, p)
    ELSE PlanDefault(p)

\* plan.target or 'default'
TargetOr(plan, default) ==
    IF plan.target = None \/ plan.target = "" THEN default ELSE plan.target

\* The branches of Agent.act: each gives the agent and the city before the
\* clamp, and the description.
ActWork(a, plan, c) ==
    [agent |-> [a EXCEPT !.money = @ + 10, !.energy = @ - 200, !.mood = @ + 50],
     city  |-> [BumpStat(c, "work_count") EXCEPT !.economy = @ + 1500],
     desc  |-> <<"worked at", TargetOr(plan, "workplace"), "and earned 10.0.">>]

\* the shop branch testing the money against 0 instead of the cost
ActShopNoCostCheck(a, plan, c) ==
    IF a.money >= 0
    THEN [agent |-> [a EXCEPT !.money = @ - 5, !.energy = @ - 100, !.mood = @ + 100],
          city  |-> [BumpStat(c, "shop_count") EXCEPT !.economy = @ + 1000],
          desc  |-> <<"ran the shop at", TargetOr(plan, "store"),
                      ", trading with customers.">>]
    ELSE [agent |-> a, city |-> c,
          desc  |-> <<"wanted to run the shop but lacked resources.">>]

\* the shop branch charging the energy of the shop before the money check
ActShopTiresUnfunded(a, plan, c) ==
    IF a.money >= 5
    THEN [agent |-> [a EXCEPT !.money = @ - 5, !.energy = @ - 100, !.mood = @ + 100],
          city  |-> [BumpStat(c, "shop_count") EXCEPT !.economy = @ + 1000],
          desc  |-> <<"ran the shop at", TargetOr(plan, "store"),
                      ", trading with customers.">>]
    ELSE [agent |-> [a EXCEPT !.energy = @ - 100], city |-> c,
          desc  |-> <<"wanted to run the shop but lacked resources.">>]

\* the shop branch counting the shop before the money check
ActShopAlwaysCounted(a, plan, c) ==
    IF a.money >= 5
    THEN [agent |-> [a EXCEPT !.money = @ - 5, !.energy = @ - 100, !.mood = @ + 100],
          city  |-> [BumpStat(c, "shop_count") EXCEPT !.economy = @ + 1000],
          desc  |-> <<"ran the shop at", TargetOr(plan, "store"),
                      ", trading with customers.">>]
    ELSE [agent |-> a, city |-> BumpStat(c, "shop_count"),
          desc  |-> <<"wanted to run the shop but lacked resources.">>]

ActShop(a, plan, c) ==
    IF a.money >= 5
    THEN [agent |-> [a EXCEPT !.money = @ - 5, !.energy = @ - 100, !.mood = @ + 100],
          city  |-> [BumpStat(c, "shop_count") EXCEPT !.economy = @ + 1000],
          desc  |-> <<"ran the shop at", TargetOr(plan, "store"),
                      ", trading with customers.">>]
    ELSE [agent |-> a, city |-> c,
          desc  |-> <<"wanted to run the shop but lacked resources.">>]

ActRest(a, plan, c) ==
    [agent |-> [a EXCEPT !.energy = Min(Unit, @ + 400), !.mood = @ + 50],
     city  |-> BumpStat(c, "rest_count"),
     desc  |-> <<"stayed home to rest.">>]

ActPatrol(a, plan, c) ==
    [agent |-> [a EXCEPT !.energy = @ - 200],
     city  |-> BumpStat(c, "patrol_count"),
     desc  |-> <<"patrolled the city streets.">>]

\* the crime branch lowering city.safety on both outcomes
ActCrimeSafetyAlwaysLowered(a, plan, c, p) ==
    LET c1 == [BumpStat(c, "crime_attempts") EXCEPT !.safety = @ - 50]
        a1 == [a EXCEPT !.energy = @ - 200]
        success_prob == 300 + (500 - c.safety)
    IN  IF p < success_prob
        THEN [agent |-> [a1 EXCEPT !.money = @ + 15, !.mood = @ + 100],
              city  |-> c1,
              desc  |-> <<"successfully committed a crime and gained 15.0.">>]
        ELSE [agent |-> [a1 EXCEPT !.mood = @ - 200],
              city  |-> BumpStat(c1, "crime_prevented"),
              desc  |-> <<"attempted a crime but was caught or scared away.">>]

\* p is the value of the one rng.random() call of the crime branch
ActCrime(a, plan, c, p) ==
    LET c1 == BumpStat(c, "crime_attempts")
        a1 == [a EXCEPT !.energy = @ - 200]
        success_prob == 300 + (500 - c1.safety)
    IN  IF p < success_prob
        THEN [agent |-> [a1 EXCEPT !.money = @ + 15, !.mood = @ + 100],
              city  |-> [c1 EXCEPT !.safety = @ - 50],
              desc  |-> <<"successfully committed a crime and gained 15.0.">>]
        ELSE [agent |-> [a1 EXCEPT !.mood = @ - 200],
              city  |-> BumpStat(c1, "crime_prevented"),
              desc  |-> <<"attempted a crime but was caught or scared away.">>]

\* the socialize branch counting under rest_count
ActSocializeMiscounted(a, plan, c) ==
    [agent |-> [a EXCEPT !.energy = @ - 100, !.mood = @ + 100],
     city  |-> BumpStat(c, "rest_count"),
     desc  |-> <<"socialized at", TargetOr(plan, "a public place"), ".">>]

ActSocialize(a, plan, c) ==
    [agent |-> [a EXCEPT !.energy = @ - 100, !.mood = @ + 100],
     city  |-> BumpStat(c, "social_interactions"),
     desc  |-> <<"socialized at", TargetOr(plan, "a public place"), ".">>]

\* the if / elif chain of Agent.act
ActBranch(a, plan, c, p) ==
    IF plan.action_type = "work" THEN ActWork(a, plan, c)
    ELSE IF plan.action_type = "shop" THEN ActShop(a, plan, c)
    ELSE IF plan.action_type = "rest" THEN ActRest(a, plan, c)
    ELSE IF plan.action_type = "patrol" THEN ActPatrol(a, plan, c)
    ELSE IF plan.action_type = "crime" THEN ActCrime(a, plan, c, p)
    ELSE IF plan.action_type = "socialize" THEN ActSocialize(a, plan, c)
    ELSE [agent |-> a, city |-> c, desc |-> <<>>]

\* act without the clamp of energy and mood
ClampAgentMissing(a) == a

\* Clamp internal variables
ClampAgent(a) ==
    [a EXCEPT !.energy = Clamp01(@), !.mood = Clamp01(@)]

\* the log entry stamped with a zero-based day
ActionLogEntryZeroBased(a, c, desc) ==
    [day |-> c.day - 1, agent_id |-> a.id, agent_name |-> a.name, role |-> a.role,
     description |-> IF desc = <<>> THEN <<"did nothing in particular.">> ELSE desc]

\* ActionLogEntry(day=city.day, agent_id, agent_name, role, description)
ActionLogEntry(a, c, desc) ==
    [day |-> c.day, agent_id |-> a.id, agent_name |-> a.name, role |-> a.role,
     description |-> IF desc = <<>> THEN <<"did nothing in particular.">> ELSE desc]

\* act returning from the rest branch before the entry is logged
AgentActRestUnlogged(a, plan, c, p) ==
    LET r  == ActBranch(a, plan, c, p)
        a2 == ClampAgent(r.agent)
    IN  IF plan.action_type = "rest"
        THEN [agent |-> a2, city |-> r.city]
        ELSE [agent |-> a2,
              city |-> log_action(r.city, ActionLogEntry(a2, r.city, r.desc))]

\* Agent.act(plan, city, rng): the agent and the city after the call
AgentAct(a, plan, c, p) ==
    LET r  == ActBranch(a, plan, c, p)
        a2 == ClampAgent(r.agent)
    IN  [agent |-> a2, city |-> log_action(r.city, ActionLogEntry(a2, r.city, r.desc))]

----------------------------------------------------------------------------
(* workflow.py *)

\* CitySimulationEngine._create_default_agents
DefaultRoster ==
    << [id |-> 1, name |-> "Alice",  role |-> "worker"],
       [id |-> 2, name |-> "Bob",    role |-> "worker"],
       [id |-> 3, name |-> "Carla",  role |-> "shop_owner"],
       [id |-> 4, name |-> "Daniel", role |-> "student"],
       [id |-> 5, name |-> "Eva",    role |-> "police"],
       [id |-> 6, name |-> "Frank",  role |-> "citizen"] >>

CreateAgents(roster) ==
    [i \in 1 .. Len(roster) |-> NewAgent(roster[i].id, roster[i].name, roster[i].role)]

NoCtx == [day |-> 0, weather |-> None, events |-> <<>>]
NoPlans == [k \in {} |-> None]

\* the events list of _day_context, from its one draw
EventsOf(p) ==
    IF p < 100 THEN <<"city_festival">>
    ELSE IF p < 180 THEN <<"minor_economic_downturn">>
    ELSE IF p < 250 THEN <<"crime_wave">>
    ELSE <<>>

\* _city_update multiplying the economy by the loss 0.995 - 1 instead of 0.995
city_updateDecayAsLoss(c) ==
    LET s  == c.daily_stats
        e1 == c.economy + 500 * s["work_count"] + 300 * s["shop_count"]
        e2 == (e1 * (995 - 1000)) \div 1000
        sf == c.safety + 10 * s["patrol_count"] - 30 * s["crime_attempts"]
                       + 20 * s["crime_prevented"]
        hp == c.happiness + 10 * s["social_interactions"] + 5 * s["rest_count"]
                          - 15 * s["crime_attempts"]
    IN  clamp_metrics([c EXCEPT !.economy = e2, !.safety = sf, !.happiness = hp])

\* _city_update applying the decay before the additive term
city_updateDecayFirst(c) ==
    LET s  == c.daily_stats
        e1 == (c.economy * 995) \div 1000
        e2 == e1 + 500 * s["work_count"] + 300 * s["shop_count"]
        sf == c.safety + 10 * s["patrol_count"] - 30 * s["crime_attempts"]
                       + 20 * s["crime_prevented"]
        hp == c.happiness + 10 * s["social_interactions"] + 5 * s["rest_count"]
                          - 15 * s["crime_attempts"]
    IN  clamp_metrics([c EXCEPT !.economy = e2, !.safety = sf, !.happiness = hp])

\* the arithmetic of _city_update
city_update(c) ==
    LET s  == c.daily_stats
        e1 == c.economy + 500 * s["work_count"] + 300 * s["shop_count"]
        e2 == (e1 * 995) \div 1000
        sf == c.safety + 10 * s["patrol_count"] - 30 * s["crime_attempts"]
                       + 20 * s["crime_prevented"]
        hp == c.happiness + 10 * s["social_interactions"] + 5 * s["rest_count"]
                          - 15 * s["crime_attempts"]
    IN  clamp_metrics([c EXCEPT !.economy = e2, !.safety = sf, !.happiness = hp])

NoneExecuted == [t \in ActionTypes \cup {"shop_unfunded"} |-> 0]

\* the history of executed actions after act(plan) of agent a
Executed(ex, a, plan) ==
    LET ex1 == [ex EXCEPT ![plan.action_type] = @ + 1]
    IN  IF plan.action_type = "shop" /\ a.money < 5
        THEN [ex1 EXCEPT !["shop_unfunded"] = @ + 1]
        ELSE ex1

\* CitySimulationEngine(seed) followed by the call run(d), with the roster r
InitWith(r, d) ==
    /\ agents = CreateAgents(r)
    /\ city = NewCityState
    /\ days = d
    /\ iter = 0
    /\ pc = "loop"
    /\ ctx = NoCtx
    /\ plans = NoPlans
    /\ idx = 0
    /\ executed = NoneExecuted
    /\ sumStats = [k \in StatKeys |-> 0]

\* for _ in range(days): the loop is over
RunDone ==
    /\ pc = "loop"
    /\ iter >= days
    /\ pc' = "done"
    /\ UNCHANGED <<agents, city, days, iter, ctx, plans, idx, executed, sumStats>>

\* the loop of run iterating over range(days + 1)
DayStartOneMore ==
    /\ pc = "loop"
    /\ iter <= days
    /\ city' = reset_daily_stats(city)
    /\ pc' = "day_context"
    /\ UNCHANGED <<agents, days, iter, ctx, plans, idx, executed, sumStats>>

\* _day_start
DayStart ==
    /\ pc = "loop"
    /\ iter < days
    /\ city' = reset_daily_stats(city)
    /\ pc' = "day_context"
    /\ UNCHANGED <<agents, days, iter, ctx, plans, idx, executed, sumStats>>

\* _day_context: _random_weather, then one draw for the event
DayContext ==
    /\ pc = "day_context"
    /\ \E w \in 1 .. Len(Weathers), p \in Draws :
          ctx' = [day |-> city.day, weather |-> Weathers[w], events |-> EventsOf(p)]
    /\ plans' = NoPlans
    /\ idx' = 1
    /\ pc' = IF Len(agents) = 0 THEN "city_update" ELSE "planning"
    /\ UNCHANGED <<agents, city, days, iter, executed, sumStats>>

\* _citizen_planning with its loop stopping one agent short
CitizenPlanningOneShort ==
    /\ pc = "planning"
    /\ idx \in 1 .. Len(agents)
    /\ \E p \in Draws :
          plans' = [k \in DOMAIN plans \cup {agents[idx].id} |->
                       IF k = agents[idx].id
                       THEN AgentPlan(agents[idx], city, ctx, p)
                       ELSE plans[k]]
    /\ IF idx >= Len(agents) - 1
       THEN pc' = "actions" /\ idx' = 1
       ELSE pc' = pc /\ idx' = idx + 1
    /\ UNCHANGED <<agents, city, days, iter, ctx, executed, sumStats>>

\* _citizen_planning with a plan that costs the planning agent energy
CitizenPlanningTiring ==
    /\ pc = "planning"
    /\ idx \in 1 .. Len(agents)
    /\ \E p \in Draws :
          plans' = [k \in DOMAIN plans \cup {agents[idx].id} |->
                       IF k = agents[idx].id
                       THEN AgentPlan(agents[idx], city, ctx, p)
                       ELSE plans[k]]
    /\ agents' = [agents EXCEPT ![idx].energy = Clamp01(@ - 100)]
    /\ IF idx = Len(agents)
       THEN pc' = "actions" /\ idx' = 1
       ELSE pc' = pc /\ idx' = idx + 1
    /\ UNCHANGED <<city, days, iter, ctx, executed, sumStats>>

\* _citizen_planning: one turn of its loop over self.agents
CitizenPlanning ==
    /\ pc = "planning"
    /\ idx \in 1 .. Len(agents)
    /\ \E p \in Draws :
          plans' = [k \in DOMAIN plans \cup {agents[idx].id} |->
                       IF k = agents[idx].id
                       THEN AgentPlan(agents[idx], city, ctx, p)
                       ELSE plans[k]]
    /\ IF idx = Len(agents)
       THEN pc' = "actions" /\ idx' = 1
       ELSE pc' = pc /\ idx' = idx + 1
    /\ UNCHANGED <<agents, city, days, iter, ctx, executed, sumStats>>

\* _citizen_actions: one turn of its loop over self.agents
CitizenActions ==
    /\ pc = "actions"
    /\ idx \in 1 .. Len(agents)
    /\ IF agents[idx].id \in DOMAIN plans
       THEN \E p \in Draws :
              LET plan == plans[agents[idx].id]
                  r    == AgentAct(agents[idx], plan, city, p)
              IN  /\ agents' = [agents EXCEPT ![idx] = r.agent]
                  /\ city' = r.city
                  /\ executed' = Executed(executed, agents[idx], plan)
       ELSE UNCHANGED <<agents, city, executed>>
    /\ IF idx = Len(agents)
       THEN pc' = "city_update" /\ idx' = 0
       ELSE pc' = pc /\ idx' = idx + 1
    /\ UNCHANGED <<days, iter, ctx, plans, sumStats>>

\* _city_update
CityUpdate ==
    /\ pc = "city_update"
    /\ city' = city_update(city)
    /\ pc' = "reporting"
    /\ UNCHANGED <<agents, days, iter, ctx, plans, idx, executed, sumStats>>

\* the log entries _reporting prints
TodaysLogs(c) ==
    SelectSeq(c.logs, LAMBDA e : e.day = c.day)

\* _reporting: prints, changes nothing
Reporting ==
    /\ pc = "reporting"
    /\ pc' = "next_day"
    /\ UNCHANGED <<agents, city, days, iter, ctx, plans, idx, executed, sumStats>>

\* _next_day, the last call of the loop body: ctx and plans die with the iteration
NextDay ==
    /\ pc = "next_day"
    /\ city' = [city EXCEPT !.day = @ + 1]
    /\ iter' = iter + 1
    /\ sumStats' = [k \in StatKeys |-> sumStats[k] + city.daily_stats[k]]
    /\ ctx' = NoCtx
    /\ plans' = NoPlans
    /\ pc' = "loop"
    /\ UNCHANGED <<agents, days, idx, executed>>

Next ==
    \/ DayStart
    \/ DayContext
    \/ CitizenPlanning
    \/ CitizenActions
    \/ CityUpdate
    \/ Reporting
    \/ NextDay
    \/ RunDone

\* the rosters of the runs: the runs of consecutive agents of the default roster
Rosters ==
    {SubSeq(DefaultRoster, i, j) : i \in 1 .. Len(DefaultRoster),
                                   j \in 1 .. Len(DefaultRoster)} \ {<<>>}

\* a fresh engine over a roster, run for a number of days within the budget
\* (range(days) is empty for days <= 0: -1 stands for the negative counts)
Init ==
    \E r \in Rosters, d \in -1 .. MaxActs :
        /\ Len(r) * d <= MaxActs
        /\ InitWith(r, d)

Spec == Init /\ [][Next]_vars

\* run is sequential code without waiting: a call that can take a step takes it
FairSpec == Spec /\ WF_vars(Next)

\* the engine as __init__ builds it, run for one day
InitDefault == \E d \in 0 .. 1 : InitWith(DefaultRoster, d)

SpecDefault == InitDefault /\ [][Next]_vars

\* the shop owner alone, run long enough to spend all her money
InitShopOwner == InitWith(SubSeq(DefaultRoster, 3, 3), MaxLongDays)

SpecShopOwner == InitShopOwner /\ [][Next]_vars

\* the runs of Spec and a worker alone, run long enough to wear her out
InitTired == Init \/ InitWith(SubSeq(DefaultRoster, 1, 1), MaxTiredDays)

SpecTired == InitTired /\ [][Next]_vars

\* the runs of Spec and the long run of the shop owner
InitRuns == Init \/ InitShopOwner

SpecRuns == InitRuns /\ [][Next]_vars

----------------------------------------------------------------------------
(* Agent.plan, Agent.act and _city_update on their whole input ranges: one   *)
(* agent with any role, money, energy and mood, a city with any metrics and *)
(* counters, entered at the phase that calls the operation, then the rest   *)
(* of a one-day run.                                                        *)

UnitRoles == {"worker", "shop_owner", "student", "police", "citizen", "tourist"}
UnitEnergy == {0, 100, 290, 300, 700, Unit}
UnitMood == {0, 100, 500, 950, Unit}
UnitMoney == {0, 4, 5, 50}
UnitSafety == {0, 300, 800, Unit}
UnitHappiness == {0, 800, Unit}
UnitEconomy == {0, 79 * Unit, 100 * Unit}
UnitCounts == {0, 40}

UnitCtx == [day |-> 1, weather |-> "sunny", events |-> <<>>]

InitUnitWith(a, c, phase, pl) ==
    /\ agents = <<a>>
    /\ city = c
    /\ days = 1
    /\ iter = 0
    /\ pc = phase
    /\ ctx = UnitCtx
    /\ plans = pl
    /\ idx = IF phase = "city_update" THEN 0 ELSE 1
    /\ executed = NoneExecuted
    /\ sumStats = [k \in StatKeys |-> 0]

\* Agent.plan about to be called
InitUnitPlan ==
    \E role \in UnitRoles, en \in UnitEnergy, mn \in {0, 50},
       ec \in UnitEconomy, sf \in UnitSafety :
        InitUnitWith([NewAgent(1, "Alice", role) EXCEPT !.energy = en, !.money = mn],
                     [reset_daily_stats(NewCityState) EXCEPT !.economy = ec, !.safety = sf],
                     "planning", NoPlans)

\* Agent.act about to be called with any PlannedAction
InitUnitAct ==
    \E t \in ActionTypes, en \in UnitEnergy, md \in UnitMood, mn \in UnitMoney,
       ec \in UnitEconomy, sf \in UnitSafety :
        InitUnitWith([NewAgent(1, "Alice", "citizen") EXCEPT
                          !.energy = en, !.mood = md, !.money = mn],
                     [reset_daily_stats(NewCityState) EXCEPT !.economy = ec, !.safety = sf],
                     "actions", [k \in {1} |-> PlannedAction(t, None, "")])

\* _city_update about to be called with any counters
InitUnitUpdate ==
    \E st \in [StatKeys -> UnitCounts], ec \in UnitEconomy,
       sf \in UnitSafety, hp \in UnitHappiness :
        InitUnitWith(NewAgent(1, "Alice", "citizen"),
                     [NewCityState EXCEPT !.economy = ec, !.safety = sf,
                                          !.happiness = hp, !.daily_stats = st],
                     "city_update", NoPlans)

InitUnit == InitUnitPlan \/ InitUnitAct \/ InitUnitUpdate

NextUnit ==
    \/ CitizenPlanning
    \/ CitizenActions
    \/ CityUpdate
    \/ Reporting
    \/ NextDay
    \/ RunDone

SpecUnit == InitUnit /\ [][NextUnit]_vars

----------------------------------------------------------------------------
(* Properties *)

Last(s) == s[Len(s)]

\* the agent whose turn it is in a loop over self.agents, and its plan
Cur == agents[idx]
CurPlan == plans[Cur.id]

\* a turn of the loop of _citizen_actions that calls act with a plan of type t
ActsNow(t) ==
    /\ pc = "actions"
    /\ idx \in 1 .. Len(agents)
    /\ Cur.id \in DOMAIN plans
    /\ CurPlan.action_type = t
    /\ Len(city'.logs) = Len(city.logs) + 1

\* the daily_stats counter of an action type
StatOf(t) ==
    CASE t = "work" -> "work_count"
      [] t = "shop" -> "shop_count"
      [] t = "rest" -> "rest_count"
      [] t = "patrol" -> "patrol_count"
      [] t = "crime" -> "crime_attempts"
      [] t = "socialize" -> "social_interactions"

\* C1 as stated: at the end of every day and of the run, for each action type
\* the end-of-day counters summed over the days equal the number of executed
\* actions of that type.
C1_TotalsEqualExecuted ==
    pc \in {"loop", "done"} =>
        \A t \in ActionTypes : sumStats[StatOf(t)] = executed[t]

\* C1 as amended: the same, except that shop_count totals the shop actions
\* executed with money >= 5; a shop executed with money < 5 is not counted.
C1_TotalsEqualFundedExecuted ==
    pc \in {"loop", "done"} =>
        \A t \in ActionTypes :
            sumStats[StatOf(t)] =
                executed[t] - (IF t = "shop" THEN executed["shop_unfunded"] ELSE 0)

\* C1 witness: a run has ended in which ten shops were counted over several
\* days, the agent rested, and a further shop was executed without money.
C1_Witness ==
    /\ pc = "done"
    /\ iter >= 2
    /\ executed["shop_unfunded"] >= 1
    /\ sumStats["shop_count"] = 10
    /\ sumStats["rest_count"] >= 1

\* a turn of _citizen_actions that executes shop for an agent with money < 5
UnfundedShopStep == ActsNow("shop") /\ Cur.money < 5

\* C2 as stated: a shop executed with money < 5 leaves money and economy
\* unchanged and still increments shop_count by 1.
C2_UnfundedShopCounted ==
    [][UnfundedShopStep =>
          /\ agents'[idx].money = Cur.money
          /\ city'.economy = city.economy
          /\ city'.daily_stats["shop_count"] = city.daily_stats["shop_count"] + 1]_vars

\* C2 as amended: a shop executed with money < 5 leaves money and economy
\* unchanged and leaves shop_count unchanged too.
C2_UnfundedShopNotCounted ==
    [][UnfundedShopStep =>
          /\ agents'[idx].money = Cur.money
          /\ city'.economy = city.economy
          /\ city'.daily_stats["shop_count"] = city.daily_stats["shop_count"]]_vars

\* C2 witness: act has just taken the lacked-resources path of shop.
C2_Witness ==
    /\ Len(city.logs) >= 1
    /\ Last(city.logs).description = <<"wanted to run the shop but lacked resources.">>
    /\ executed["shop_unfunded"] = 1
    /\ agents[1].money < 5

\* C3: energy and mood of every agent are within [0.0, 1.0] in every state,
\* so after every call of act, whatever the action type and its outcome.
C3_AgentLevelsInRange ==
    \A i \in 1 .. Len(agents) :
        /\ agents[i].energy >= 0 /\ agents[i].energy <= Unit
        /\ agents[i].mood >= 0 /\ agents[i].mood <= Unit

\* C3 witness: act has run a failed crime that took energy and mood to the
\* lower clamp.
C3_Witness ==
    /\ Len(city.logs) >= 1
    /\ Last(city.logs).description = <<"attempted a crime but was caught or scared away.">>
    /\ agents[1].energy = 0
    /\ agents[1].mood = 0

\* C4: once CITY_UPDATE has completed, through REPORTING and NEXT_DAY, safety
\* and happiness are within [0.0, 1.0], whatever the counters of the day were.
C4_MetricsInRange ==
    pc \in {"reporting", "next_day", "loop", "done"} =>
        /\ city.safety >= 0 /\ city.safety <= Unit
        /\ city.happiness >= 0 /\ city.happiness <= Unit

\* C4 witness: CITY_UPDATE has completed on counters that take safety below 0
\* and happiness above 1 before the clamp.
C4_Witness ==
    /\ pc = "reporting"
    /\ city.daily_stats["crime_attempts"] = 40
    /\ city.daily_stats["crime_prevented"] = 0
    /\ city.daily_stats["patrol_count"] = 0
    /\ city.safety = 0
    /\ city.daily_stats["social_interactions"] = 40
    /\ city.daily_stats["rest_count"] = 40
    /\ city.happiness = Unit

\* C5: every call of Agent.plan by an agent with energy < 0.3 records a plan
\* of type rest, whatever the role, the city and the draw.
C5_FatigueOverride ==
    [][(/\ pc = "planning"
        /\ idx \in 1 .. Len(agents)
        /\ Cur.energy < 300
        /\ plans' # plans)
          => plans'[Cur.id].action_type = "rest"]_vars

\* C5 witness: an agent of an unknown role with energy < 0.3 has planned, and
\* so has a police agent with energy < 0.3.
C5_Witness ==
    /\ pc = "actions"
    /\ agents[1].role \in {"tourist", "police"}
    /\ agents[1].energy < 300
    /\ agents[1].id \in DOMAIN plans
    /\ plans[agents[1].id].note = "Too tired, staying home."

\* the ids of the roster
AgentIds == {agents[i].id : i \in 1 .. Len(agents)}

\* C6: in every day each agent of the roster gets exactly one plan in
\* CITIZEN_PLANNING and exactly one log entry in CITIZEN_ACTIONS, in roster
\* order: the plans cover the roster when the actions start (the skip branch
\* is never taken) and the log holds the roster size times the completed days.
C6_OnePlanOneEntry ==
    LET n == Len(agents)
    IN  /\ pc \in {"loop", "done", "day_context"} => Len(city.logs) = iter * n
        /\ pc = "planning" =>
              /\ DOMAIN plans = {agents[i].id : i \in 1 .. idx - 1}
              /\ Len(city.logs) = iter * n
        /\ pc = "actions" =>
              /\ DOMAIN plans = AgentIds
              /\ Len(city.logs) = iter * n + idx - 1
        /\ pc \in {"city_update", "reporting", "next_day"} =>
              /\ DOMAIN plans = AgentIds
              /\ Len(city.logs) = (iter + 1) * n
        /\ \A k \in 1 .. Len(city.logs) :
              city.logs[k].agent_id = agents[((k - 1) % n) + 1].id

\* C6 witness: two agents have completed two days and the log holds four entries.
C6_Witness ==
    /\ pc = "done"
    /\ Len(agents) = 2
    /\ iter = 2
    /\ Len(city.logs) = 4
    /\ executed["rest"] >= 1

\* C7: every log entry carries the day of the cycle that appended it, which is
\* the value of city.day when its action was executed: city.day is one more
\* than the number of completed cycles throughout.
C7_LogDayIsCityDay ==
    LET n == Len(agents)
    IN  /\ city.day = iter + 1
        /\ \A k \in 1 .. Len(city.logs) :
              /\ city.logs[k].day = ((k - 1) \div n) + 1
              /\ (k > iter * n) => city.logs[k].day = city.day

\* C7 witness: a second day is under way and the log holds entries of both days.
C7_Witness ==
    /\ pc = "city_update"
    /\ city.day = 2
    /\ Len(agents) = 2
    /\ city.logs[1].day = 1
    /\ Last(city.logs).day = 2

\* C9: a crime executed with a failing draw (draw >= 0.3 + (0.5 - safety))
\* lowers the mood by 0.2 and then clamps it, increments crime_attempts and
\* crime_prevented by 1 each, and leaves safety, economy and money unchanged.
C9_CrimeFailure ==
    [][\A p \in Draws :
          (/\ ActsNow("crime")
           /\ p >= 300 + (500 - city.safety)
           /\ agents' = [agents EXCEPT ![idx] = AgentAct(Cur, CurPlan, city, p).agent]
           /\ city' = AgentAct(Cur, CurPlan, city, p).city)
          => /\ agents'[idx].mood = Clamp01(Cur.mood - 200)
             /\ city'.daily_stats["crime_prevented"] =
                    city.daily_stats["crime_prevented"] + 1
             /\ city'.daily_stats["crime_attempts"] =
                    city.daily_stats["crime_attempts"] + 1
             /\ city'.safety = city.safety
             /\ city'.economy = city.economy
             /\ agents'[idx].money = Cur.money]_vars

\* C9 witness: a crime has failed in a city where it could have succeeded.
C9_Witness ==
    /\ Len(city.logs) = 1
    /\ Last(city.logs).description = <<"attempted a crime but was caught or scared away.">>
    /\ city.daily_stats["crime_prevented"] = 1
    /\ city.daily_stats["crime_attempts"] = 1
    /\ city.safety = 300
    /\ agents[1].mood = 300
    /\ agents[1].money = 50

\* C10: city.economy is never negative.
C10_EconomyNonNegative ==
    city.economy >= 0

\* C10 witness: a second CITY_UPDATE has decayed an economy that no work and
\* no shop fed.
C10_Witness ==
    /\ pc = "reporting"
    /\ iter >= 1
    /\ executed["work"] = 0
    /\ executed["shop"] = 0
    /\ city.economy < 100 * Unit
    /\ city.economy > 0

\* C11: immediately after DAY_START daily_stats has exactly the seven keys, all
\* with value 0; from then on the key set is the same and every value is a
\* non-negative integer.
C11_DailyStatsReset ==
    LET keys == {"work_count", "shop_count", "patrol_count", "crime_attempts",
                 "crime_prevented", "social_interactions", "rest_count"}
    IN  /\ pc = "day_context" =>
              /\ DOMAIN city.daily_stats = keys
              /\ \A k \in keys : city.daily_stats[k] = 0
        /\ (pc # "loop" \/ iter > 0) /\ (pc # "done" \/ iter > 0) =>
              /\ DOMAIN city.daily_stats = keys
              /\ \A k \in keys : city.daily_stats[k] \in Nat

\* C11 witness: DAY_START of a second day has just run after a day that counted
\* actions.
C11_Witness ==
    /\ pc = "day_context"
    /\ iter = 1
    /\ \E k \in StatKeys : sumStats[k] > 0
    /\ \A k \in StatKeys : city.daily_stats[k] = 0

\* the sum of the seven counters
StatsSum(s) ==
    s["work_count"] + s["shop_count"] + s["patrol_count"] + s["crime_attempts"]
    + s["crime_prevented"] + s["social_interactions"] + s["rest_count"]

\* the first day of the default roster: six plans, six log entries of day 1,
\* counters summing to 6, and safety and happiness as the update rule gives
\* them from 0.8, 0.8 and the counters
DayOneCounts ==
    LET s == city.daily_stats
    IN  /\ pc \in {"city_update", "reporting", "next_day"} =>
              /\ Cardinality(DOMAIN plans) = 6
              /\ StatsSum(s) = 6
        /\ Len(city.logs) = 6
        /\ \A k \in 1 .. 6 : city.logs[k].day = 1
        /\ pc # "city_update" =>
              /\ city.safety = Clamp01(800 + 10 * s["patrol_count"]
                                           - 30 * s["crime_attempts"]
                                           + 20 * s["crime_prevented"])
              /\ city.happiness = Clamp01(800 + 10 * s["social_interactions"]
                                              + 5 * s["rest_count"]
                                              - 15 * s["crime_attempts"])

\* the six agents have acted on the first day of a one-day run
DayOneActed ==
    /\ Len(agents) = 6
    /\ days = 1
    /\ \/ pc \in {"city_update", "reporting", "next_day"}
       \/ pc \in {"loop", "done"} /\ iter = 1

\* C12 as stated: after the one day of the default roster there are 6 plans and
\* 6 log entries of day 1, the counters sum to 6, and economy, safety and
\* happiness are what the update rule gives from (100.0, 0.8, 0.8) and the
\* counters of the day.
C12_DayOneFromInitialMetrics ==
    DayOneActed =>
        /\ DayOneCounts
        /\ pc # "city_update" =>
              city.economy =
                  ((100 * Unit + 500 * city.daily_stats["work_count"]
                               + 300 * city.daily_stats["shop_count"]) * 995) \div 1000

\* C12 as amended: the same, except that the update rule is applied to the
\* economy act has already raised by 1.5 per work and 1.0 per shop.
C12_DayOneFromActedEconomy ==
    DayOneActed =>
        /\ DayOneCounts
        /\ pc # "city_update" =>
              city.economy =
                  ((100 * Unit + 1500 * city.daily_stats["work_count"]
                               + 1000 * city.daily_stats["shop_count"]
                               + 500 * city.daily_stats["work_count"]
                               + 300 * city.daily_stats["shop_count"]) * 995) \div 1000

\* C12 witness: the one-day run of the six agents has ended with work, shop,
\* patrol and socialize all executed.
C12_Witness ==
    /\ pc = "done"
    /\ DayOneActed
    /\ executed["work"] >= 2
    /\ executed["shop"] = 1
    /\ executed["patrol"] = 1
    /\ executed["socialize"] >= 1

\* the order of the calls of the loop body of run
PhaseOrder ==
    {<<"loop", "day_context">>, <<"day_context", "planning">>,
     <<"planning", "planning">>, <<"planning", "actions">>,
     <<"actions", "actions">>, <<"actions", "city_update">>,
     <<"city_update", "reporting">>, <<"reporting", "next_day">>,
     <<"next_day", "loop">>, <<"loop", "done">>}

\* C13: the phases of a day run in the order DAY_START, context, PLANNING,
\* ACTIONS, CITY_UPDATE, REPORTING, NEXT_DAY, each completing before the next:
\* plans are recorded in roster order and only in PLANNING, an agent acts only
\* once the whole roster has planned and in roster order, the metrics are
\* updated only once the whole roster has acted, and day changes only after
\* REPORTING.
C13_PhaseOrder ==
    [][LET n     == Len(agents)
           today == Len(city.logs) - iter * n
       IN  /\ <<pc, pc'>> \in PhaseOrder
           /\ (plans' # plans /\ plans' # NoPlans) =>
                 /\ pc = "planning"
                 /\ today = 0
                 /\ DOMAIN plans = {agents[i].id : i \in 1 .. Cardinality(DOMAIN plans)}
                 /\ DOMAIN plans' = DOMAIN plans
                                    \cup {agents[Cardinality(DOMAIN plans) + 1].id}
           /\ (agents' # agents \/ city'.logs # city.logs) =>
                 /\ pc = "actions"
                 /\ DOMAIN plans = AgentIds
                 /\ Len(city'.logs) = Len(city.logs) + 1
                 /\ Last(city'.logs).agent_id = agents[today + 1].id
                 /\ \A i \in 1 .. n : i # today + 1 => agents'[i] = agents[i]
           /\ (pc = "city_update" \/ city'.happiness # city.happiness) =>
                 /\ pc = "city_update" /\ pc' = "reporting"
                 /\ today = n
           /\ city'.day # city.day =>
                 /\ pc = "next_day"
                 /\ today = n]_vars

\* C13 witness: three agents have gone through every phase of a day and the
\* report of the day is done.
C13_Witness ==
    /\ pc = "next_day"
    /\ Len(agents) = 3
    /\ Len(city.logs) = 3
    /\ city.happiness > 800

\* C14: a call of Agent.plan leaves the city, the DayContext and every agent
\* as they were, so all agents of a day plan on the state DAY_START and the
\* context building left: counters at 0 and no log entry of the day.
C14_PlanIsPure ==
    [][pc = "planning" =>
          /\ city' = city
          /\ ctx' = ctx
          /\ agents' = agents
          /\ ctx.day = city.day
          /\ \A k \in DOMAIN city.daily_stats : city.daily_stats[k] = 0
          /\ \A k \in 1 .. Len(city.logs) : city.logs[k].day < city.day]_vars

\* C14 witness: on a second day two agents have both planned and none has
\* acted yet.
C14_Witness ==
    /\ pc = "actions"
    /\ idx = 1
    /\ iter = 1
    /\ Len(agents) = 2
    /\ Cardinality(DOMAIN plans) = 2
    /\ Len(city.logs) = 2

\* C15: run(days) ends; it ends after exactly days cycles (none for
\* days <= 0) with city.day = cycles + 1; city.day starts at 1 and changes
\* only in NEXT_DAY, by +1; a run of zero cycles leaves the city and the agents
\* as constructed.
C15_RunTerminates ==
    /\ <>(pc = "done")
    /\ [](/\ city.day >= 1
          /\ pc = "done" =>
                /\ iter = Max(days, 0)
                /\ city.day = iter + 1
                /\ days <= 0 =>
                      /\ city = NewCityState
                      /\ \A i \in 1 .. Len(agents) :
                            agents[i] = NewAgent(agents[i].id, agents[i].name,
                                                 agents[i].role))
    /\ [][city'.day # city.day =>
              /\ pc = "next_day"
              /\ city'.day = city.day + 1]_vars

\* C15 witness: a run of two days has ended.
C15_Witness ==
    /\ pc = "done"
    /\ days = 2
    /\ iter = 2
    /\ city.day = 3

\* the day fields do not decrease along a log
Chronological(logs) ==
    \A j, k \in 1 .. Len(logs) : j <= k => logs[j].day <= logs[k].day

\* C16: every step leaves the log entries it finds as a prefix of the new log,
\* and the day fields never decrease along the log.
C16_LogAppendOnly ==
    [][/\ Len(city'.logs) >= Len(city.logs)
       /\ SubSeq(city'.logs, 1, Len(city.logs)) = city.logs
       /\ Chronological(city'.logs)]_vars

\* C16 witness: DAY_START of a second day has run and the entries of the
\* first day are still in the log, and an entry of the second day follows them.
C16_Witness ==
    /\ pc = "actions"
    /\ iter = 1
    /\ Len(agents) = 2
    /\ Len(city.logs) = 3
    /\ city.logs[1].day = 1
    /\ city.logs[3].day = 2

\* C17: no agent ever holds a crime plan, no crime is executed or counted,
\* safety never decreases and stays within [0.8, 1.0], so the patrol threshold
\* 0.6 + (0.5 - safety) of the police stays within [0.1, 0.3].
C17_NoCrime ==
    /\ [](/\ \A id \in DOMAIN plans : plans[id].action_type # "crime"
          /\ executed["crime"] = 0
          /\ \A k \in DOMAIN city.daily_stats \cap {"crime_attempts", "crime_prevented"} :
                city.daily_stats[k] = 0
          /\ city.safety >= 800
          /\ 600 + (500 - city.safety) >= 100
          /\ 600 + (500 - city.safety) <= 300)
    /\ [][city'.safety >= city.safety]_vars

\* C17 witness: the police agent has patrolled on two days and CITY_UPDATE has
\* raised safety twice.
C17_Witness ==
    /\ pc = "reporting"
    /\ executed["patrol"] = 2
    /\ city.safety = 820
    /\ city.daily_stats["crime_attempts"] = 0

TooTired == "Too tired, staying home."

\* agent i has executed the plan of the day
HasActed(i) ==
    \/ pc \in {"city_update", "reporting", "next_day"}
    \/ pc = "actions" /\ i < idx

\* C18: every agent's energy is at least 0.1 in every state (so the lower
\* clamp is never engaged); once an agent has executed a rest planned by the
\* fatigue override its energy is at least 0.4; and the fatigue override never
\* plans a rest for an agent whose previous action was a rest.
C18_EnergyFloor ==
    /\ [](\A i \in 1 .. Len(agents) :
            /\ agents[i].energy >= 100
            /\ (/\ HasActed(i)
                /\ agents[i].id \in DOMAIN plans
                /\ plans[agents[i].id].note = TooTired) => agents[i].energy >= 400)
    /\ [][(/\ pc = "planning"
           /\ plans' # plans
           /\ plans'[Cur.id].note = TooTired)
             => /\ iter >= 1
                /\ city.logs[Len(city.logs) - Len(agents) + idx].agent_id = Cur.id
                /\ city.logs[Len(city.logs) - Len(agents) + idx].description
                       # <<"stayed home to rest.">>]_vars

\* C18 witness: an agent went down to energy 0.1, rested by the fatigue
\* override and is back at 0.5.
C18_Witness ==
    /\ pc = "reporting"
    /\ plans[agents[1].id].note = TooTired
    /\ agents[1].energy = 500

\* C19: the money of every agent is non-negative in every state.
C19_MoneyNonNegative ==
    \A i \in 1 .. Len(agents) : agents[i].money >= 0

\* C19 witness: the shop owner has spent her last 5 in a shop.
C19_Witness ==
    /\ pc = "city_update"
    /\ agents[1].role = "shop_owner"
    /\ agents[1].money = 0
    /\ executed["shop"] = 10
    /\ executed["shop_unfunded"] = 0

\* the shops executed with money >= 5
FundedShops == executed["shop"] - executed["shop_unfunded"]

\* C20: a shop owner only plans shop, socialize or rest, so her money never
\* increases; she completes at most 10
\* funded shops, each costing 5 of her 50; a shop she executes after that
\* takes the lacked-resources path: it changes neither the agent nor
\* city.economy nor any counter, and appends its log entry.
C20_ShopOwnerRunsDry ==
    /\ [](/\ \A id \in DOMAIN plans :
                plans[id].action_type \in {"shop", "socialize", "rest"}
          /\ FundedShops <= 10
          /\ agents[1].money = 50 - 5 * FundedShops
          /\ FundedShops = 10 => agents[1].money < 5)
    /\ [][/\ agents'[1].money <= agents[1].money
          /\ ActsNow("shop") /\ FundedShops = 10 => UnfundedShopStep
          /\ UnfundedShopStep =>
                /\ agents'[idx] = Cur
                /\ city'.economy = city.economy
                /\ city'.daily_stats = city.daily_stats
                /\ city'.logs = Append(city.logs,
                       [day |-> city.day, agent_id |-> Cur.id, agent_name |-> Cur.name,
                        role |-> Cur.role,
                        description |->
                            <<"wanted to run the shop but lacked resources.">>])]_vars

\* C20 witness: after ten funded shops the shop owner has executed one more
\* and the day has been reported.
C20_Witness ==
    /\ pc = "next_day"
    /\ FundedShops = 10
    /\ executed["shop_unfunded"] = 1
    /\ city.daily_stats["shop_count"] = 0
    /\ Len(city.logs) = 12

====
